---- MODULE Spec2Model ----
(***************************************************************************)
(* A model of the banka-be ledger service (src/server.js): the in-memory   *)
(* ledger `db`, the durable file written by saveDB, and the five request   *)
(* handlers of the router.  Each handler is a pure operator from the       *)
(* ledger and the request to the new ledger and the response; one action   *)
(* per handler applies it.                                                 *)
(*                                                                         *)
(* JavaScript values are tagged records.  Strings that the code parses or  *)
(* concatenates (date, object, amount, balance, transaction ids) are       *)
(* sequences of one-character strings, so that parseFloat and `+` are      *)
(* computed character by character; user, currency and description are    *)
(* TLA+ strings.  Numbers are integers plus NaN (fractions, exponents and  *)
(* Infinity are outside the input sets).                                   *)
(***************************************************************************)
EXTENDS Integers, Sequences, FiniteSets, TLC

VARIABLES
  db,     \* the in-memory ledger: user key -> account
  file,   \* db.json
  saved,  \* whether the last request called saveDB
  steps,  \* the number of requests handled so far
  req,    \* the last request
  res,    \* the response to it
  opened, \* history: the opening balance of each account created in this run
          \* that no delete has touched since
  inflight, \* the requests that have arrived, each with its handler's position
  running   \* the request whose handler the event loop is running, or 0

vars == <<db, file, saved, steps, req, res, opened, inflight, running>>

---------------------------------------------------------------------------
(* JavaScript values *)

Undefined == [t |-> "undefined"]

Null == [t |-> "null"]

Num(n) == [t |-> "number", nan |-> FALSE, n |-> n]

NaN == [t |-> "number", nan |-> TRUE, n |-> 0]

Str(s) == [t |-> "string", s |-> s]

\* a built-in member inherited from Object.prototype (db.constructor)
Builtin == [t |-> "function"]

\* ToBoolean: what `!x`, `x && ...` and `x || ...` test
Truthy(x) ==
  CASE x.t = "undefined" -> FALSE
    [] x.t = "null" -> FALSE
    [] x.t = "number" -> ~x.nan /\ x.n # 0
    [] x.t = "string" -> Len(x.s) > 0
    [] OTHER -> TRUE

\* typeof x === 'number'
IsNumber(x) == x.t = "number"

\* isNaN(x), applied by the code to numbers only
isNaN(x) == x.t = "number" /\ x.nan

\* a + b on two numbers
NumAdd(a, b) == IF a.nan \/ b.nan THEN NaN ELSE Num(a.n + b.n)

Digits == <<"0", "1", "2", "3", "4", "5", "6", "7", "8", "9">>

IsDigit(c) == \E i \in 1..10 : Digits[i] = c

DigitVal(c) == (CHOOSE i \in 1..10 : Digits[i] = c) - 1

IsSpace(c) == c = " "

RECURSIVE SkipSpaces(_)
SkipSpaces(s) ==
  IF Len(s) > 0 /\ IsSpace(Head(s)) THEN SkipSpaces(Tail(s)) ELSE s

\* the value of the longest prefix of digits of s, continuing from acc;
\* seen tells whether a digit was read
RECURSIVE ReadDigits(_, _, _)
ReadDigits(s, acc, seen) ==
  IF Len(s) > 0 /\ IsDigit(Head(s))
  THEN ReadDigits(Tail(s), 10 * acc + DigitVal(Head(s)), TRUE)
  ELSE [n |-> acc, seen |-> seen]

\* parseFloat on a string: leading blanks, an optional sign, then the
\* longest run of digits; NaN when there is none
ParseFloatStr(s) ==
  LET u == SkipSpaces(s)
      neg == Len(u) > 0 /\ Head(u) = "-"
      signed == Len(u) > 0 /\ Head(u) \in {"-", "+"}
      r == ReadDigits(IF signed THEN Tail(u) ELSE u, 0, FALSE)
  IN IF r.seen THEN Num(IF neg THEN 0 - r.n ELSE r.n) ELSE NaN

RECURSIVE NatToStr(_)
NatToStr(n) ==
  IF n < 10 THEN <<Digits[n + 1]>>
  ELSE NatToStr(n \div 10) \o <<Digits[(n % 10) + 1]>>

\* String(x): how `+` renders a value when concatenating
ToStr(x) ==
  CASE x.t = "string" -> x.s
    [] x.t = "number" ->
         IF x.nan THEN <<"N", "a", "N">>
         ELSE IF x.n < 0 THEN <<"-">> \o NatToStr(0 - x.n)
         ELSE NatToStr(x.n)
    [] x.t = "null" -> <<"n", "u", "l", "l">>
    [] OTHER -> <<"u", "n", "d", "e", "f", "i", "n", "e", "d">>

\* parseFloat(x): the argument is first converted to a string
parseFloat(x) == ParseFloatStr(ToStr(x))

\* crypto.createHash('md5').update(s).digest('hex'): a 32-character digest,
\* taken to be distinct for distinct inputs (and so never a seed id)
md5hex(s) == Str(<<"md5">> \o s)

\* a + b: concatenation when either side is a string, else numeric addition
\* (null counts as 0, undefined as NaN)
ToNumber(x) ==
  CASE x.t = "number" -> x
    [] x.t = "null" -> Num(0)
    [] x.t = "string" -> IF Len(SkipSpaces(x.s)) = 0 THEN Num(0) ELSE ParseFloatStr(x.s)
    [] OTHER -> NaN

Plus(a, b) ==
  IF a.t = "string" \/ b.t = "string"
  THEN Str(ToStr(a) \o ToStr(b))
  ELSE NumAdd(ToNumber(a), ToNumber(b))

---------------------------------------------------------------------------
(* The ledger and the durable file *)

\* a transaction of the built-in seed data
SeedTx(id, date, object, amount) ==
  [id |-> Str(id), date |-> Str(date), object |-> Str(object), amount |-> Num(amount)]

\* the default data used when db.json is missing or unreadable
SeedDB ==
  [k \in {"test"} |->
    [t |-> "object",
     user |-> Str("test"),
     currency |-> Str("$"),
     description |-> Str("Test account"),
     balance |-> Num(75),
     transactions |->
       << SeedTx(<<"1">>,
                 <<"2", "0", "2", "0", "-", "1", "0", "-", "0", "1">>,
                 <<"P", "o", "c", "k", "e", "t", " ", "m", "o", "n", "e", "y">>, 50),
          SeedTx(<<"2">>,
                 <<"2", "0", "2", "0", "-", "1", "0", "-", "0", "3">>,
                 <<"B", "o", "o", "k">>, 0 - 10),
          SeedTx(<<"3">>,
                 <<"2", "0", "2", "0", "-", "1", "0", "-", "0", "4">>,
                 <<"S", "a", "n", "d", "w", "i", "c", "h">>, 0 - 5) >>]]

\* names every object inherits from Object.prototype; db is a plain object
ObjectPrototypeKeys == {"constructor"}

\* db[key]
Get(d, key) ==
  IF key \in DOMAIN d THEN d[key]
  ELSE IF key \in ObjectPrototypeKeys THEN Builtin
  ELSE Undefined

\* an assignment that replaces the whole ledger by the one account
Put_alone(d, key, account) == [k \in {key} |-> account]

\* db[key] = account
Put(d, key, account) ==
  [k \in DOMAIN d \cup {key} |-> IF k = key THEN account ELSE d[k]]

\* delete db[key]
Delete(d, key) == [k \in DOMAIN d \ {key} |-> d[k]]

\* JSON.stringify renders NaN as null
JsonNumber(x) == IF x.t = "number" /\ x.nan THEN Null ELSE x

JsonTransaction(tx) == [tx EXCEPT !.amount = JsonNumber(@)]

JsonAccount(a) ==
  [a EXCEPT !.balance = JsonNumber(@),
            !.transactions = [i \in DOMAIN @ |-> JsonTransaction(@[i])]]

\* JSON.stringify(db, null, 2): the document the written text denotes
JSONstringify(d) == [k \in DOMAIN d |-> JsonAccount(d[k])]

FileMissing == [state |-> "missing"]

FileCorrupt == [state |-> "corrupt"]

FileJson(doc) == [state |-> "json", doc |-> doc]

\* a load whose catch branch starts from an empty ledger
LoadDB_emptyOnError(f) ==
  IF f.state = "json" THEN f.doc
  ELSE IF f.state = "missing" THEN SeedDB
  ELSE <<>>

\* the start-up load: the parsed file, or the seed data when the file is
\* missing or does not parse
LoadDB(f) == IF f.state = "json" THEN f.doc ELSE SeedDB

\* saveDB(): overwrite the file with the whole ledger
saveDB(d) == FileJson(JSONstringify(d))

---------------------------------------------------------------------------
(* The handlers: ledger and request to new ledger, response and save *)

ErrorBody(msg) == [error |-> msg]

\* return res.status(s).json(body) without having touched the ledger
Reply(d, s, body) == [db |-> d, status |-> s, body |-> body, save |-> FALSE]

\* saveDB() and then the response
SaveAndReply(d, s, body) == [db |-> d, status |-> s, body |-> body, save |-> TRUE]

\* an exception thrown by the handler: Express answers 500
Throw(d) == Reply(d, 500, ErrorBody("TypeError"))

\* whether a looked-up value is an account object (has .transactions)
IsAccount(x) == x.t = "object"

\* balance && typeof balance !== 'number'
needsConversion(x) == Truthy(x) /\ ~IsNumber(x)

\* let balance = req.body.balance, converted to a number if needed
accountBalance(body) ==
  IF needsConversion(body.balance) THEN parseFloat(body.balance) ELSE body.balance

\* an account built without the defaults for description and balance
newAccount_noDefaults(body, balance) ==
  [t |-> "object",
   user |-> body.user,
   currency |-> body.currency,
   description |-> body.description,
   balance |-> balance,
   transactions |-> <<>>]

\* the account object built by POST /accounts
newAccount(body, balance) ==
  [t |-> "object",
   user |-> body.user,
   currency |-> body.currency,
   description |->
     IF Truthy(body.description) THEN body.description
     ELSE Str(body.user.s \o "'s budget"),
   balance |-> IF Truthy(balance) THEN balance ELSE Num(0),
   transactions |-> <<>>]

\* a variant that validates the balance before looking the user up
postAccounts_balanceFirst(d, body) ==
  IF ~Truthy(body.user) \/ ~Truthy(body.currency)
  THEN Reply(d, 400, ErrorBody("Missing parameters"))
  ELSE IF needsConversion(body.balance) /\ isNaN(accountBalance(body))
  THEN Reply(d, 400, ErrorBody("Balance must be a number"))
  ELSE IF Truthy(Get(d, body.user.s))
  THEN Reply(d, 409, ErrorBody("User already exists"))
  ELSE SaveAndReply(Put(d, body.user.s, newAccount(body, accountBalance(body))),
                    201, newAccount(body, accountBalance(body)))

\* router.post('/accounts')
postAccounts(d, body) ==
  IF ~Truthy(body.user) \/ ~Truthy(body.currency)
  THEN Reply(d, 400, ErrorBody("Missing parameters"))
  ELSE IF Truthy(Get(d, body.user.s))
  THEN Reply(d, 409, ErrorBody("User already exists"))
  ELSE
    LET balance == accountBalance(body)
    IN IF needsConversion(body.balance) /\ isNaN(balance)
       THEN Reply(d, 400, ErrorBody("Balance must be a number"))
       ELSE
         LET account == newAccount(body, balance)
         IN SaveAndReply(Put(d, body.user.s, account), 201, account)

\* router.get('/accounts/:user')
getAccount(d, user) ==
  LET account == Get(d, user)
  IN IF ~Truthy(account)
     THEN Reply(d, 404, ErrorBody("Username or password does not exist"))
     ELSE Reply(d, 200, account)

\* router.delete('/accounts/:user')
deleteAccount(d, user) ==
  LET account == Get(d, user)
  IN IF ~Truthy(account)
     THEN Reply(d, 404, ErrorBody("User does not exist"))
     ELSE SaveAndReply(Delete(d, user), 204, Undefined)

\* a duplicate check that is never true
HasTransaction_never(account, id) == FALSE

\* a duplicate check that looks at the first transaction only
HasTransaction_firstOnly(account, id) ==
  Len(account.transactions) > 0 /\ account.transactions[1].id = id

\* account.transactions.some((transaction) => transaction.id === id)
HasTransaction(account, id) ==
  \E i \in DOMAIN account.transactions : account.transactions[i].id = id

\* a presence check that tests amount against undefined only
missingParameters_undefinedOnly(body) ==
  ~Truthy(body.date) \/ ~Truthy(body.object) \/ body.amount = Undefined

\* !req.body.date || !req.body.object || !req.body.amount
missingParameters(body) ==
  ~Truthy(body.date) \/ ~Truthy(body.object) \/ ~Truthy(body.amount)

\* let amount = req.body.amount, converted to a number if needed
transactionAmount(body) ==
  IF needsConversion(body.amount) THEN parseFloat(body.amount) ELSE body.amount

\* the md5 digest of req.body.date + req.body.object + req.body.amount
transactionId(body) ==
  md5hex(ToStr(Plus(Plus(body.date, body.object), body.amount)))

\* an update that leaves the balance alone
addToAccount_noBalance(account, transaction) ==
  [account EXCEPT !.transactions = Append(@, transaction)]

\* an update that puts the transaction first (unshift for push)
addToAccount_unshift(account, transaction) ==
  [account EXCEPT
     !.transactions = <<transaction>> \o @,
     !.balance = Plus(@, transaction.amount)]

\* account.transactions.push(transaction); account.balance += transaction.amount
addToAccount(account, transaction) ==
  [account EXCEPT
     !.transactions = Append(@, transaction),
     !.balance = Plus(@, transaction.amount)]

\* router.post('/accounts/:user/transactions')
postTransactions(d, user, body) ==
  LET account == Get(d, user)
  IN IF ~Truthy(account)
     THEN Reply(d, 404, ErrorBody("User does not exist"))
     ELSE IF missingParameters(body)
     THEN Reply(d, 400, ErrorBody("Missing parameters"))
     ELSE
       LET amount == transactionAmount(body)
       IN IF Truthy(amount) /\ isNaN(amount)
          THEN Reply(d, 400, ErrorBody("Amount must be a number"))
          ELSE
            LET id == transactionId(body)
            IN IF ~IsAccount(account) THEN Throw(d)
               ELSE IF HasTransaction(account, id)
               THEN Reply(d, 409, ErrorBody("Transaction already exists"))
               ELSE
                 LET transaction ==
                       [id |-> id, date |-> body.date,
                        object |-> body.object, amount |-> amount]
                 IN SaveAndReply(Put(d, user, addToAccount(account, transaction)),
                                 201, transaction)

\* account.transactions.findIndex((transaction) => transaction.id === id),
\* with 0 for JavaScript's -1 (sequences here start at 1)
findIndex(txs, id) ==
  IF \E i \in DOMAIN txs : txs[i].id = id
  THEN CHOOSE i \in DOMAIN txs :
         /\ txs[i].id = id
         /\ \A j \in DOMAIN txs : txs[j].id = id => i <= j
  ELSE 0

\* transactions.splice(index, 1)
splice(txs, index) ==
  SubSeq(txs, 1, index - 1) \o SubSeq(txs, index + 1, Len(txs))

\* a removal that also takes the amount off the balance
removeFromAccount_decrement(account, index) ==
  [account EXCEPT
     !.transactions = splice(@, index),
     !.balance = NumAdd(@, Num(0 - account.transactions[index].amount.n))]

\* account.transactions.splice(transactionIndex, 1)
removeFromAccount(account, index) ==
  [account EXCEPT !.transactions = splice(@, index)]

\* a variant without the not-found check: splice(-1, 1) removes the last
\* transaction
deleteTransaction_unchecked(d, user, id) ==
  LET account == Get(d, user)
  IN IF ~Truthy(account)
     THEN Reply(d, 404, ErrorBody("User does not exist"))
     ELSE IF ~IsAccount(account) THEN Throw(d)
     ELSE
       LET transactionIndex == findIndex(account.transactions, id)
           index == IF transactionIndex = 0
                    THEN Len(account.transactions) ELSE transactionIndex
       IN SaveAndReply(Put(d, user, removeFromAccount(account, index)), 204, Undefined)

\* router.delete('/accounts/:user/transactions/:id')
deleteTransaction(d, user, id) ==
  LET account == Get(d, user)
  IN IF ~Truthy(account)
     THEN Reply(d, 404, ErrorBody("User does not exist"))
     ELSE IF ~IsAccount(account) THEN Throw(d)
     ELSE
       LET transactionIndex == findIndex(account.transactions, id)
       IN IF transactionIndex = 0
          THEN Reply(d, 404, ErrorBody("Transaction does not exist"))
          ELSE SaveAndReply(Put(d, user, removeFromAccount(account, transactionIndex)),
                            204, Undefined)

---------------------------------------------------------------------------
(* Requests *)

\* the number of requests a run handles
MaxSteps == 3

\* :user of the request path
Users == {"test", "alice", "constructor"}

\* bodies of POST /accounts
AccountBodies ==
  [user : {Undefined, Str("test"), Str("alice"), Str("constructor")},
   currency : {Undefined, Str("$")},
   description : {Undefined, Str("savings")},
   balance : {Undefined, Num(5), Str(<<"5">>), Str(<<"x">>)}]

\* date and object of a transaction body: two pairs with the same
\* concatenation, and one pair lacking each field
DateObjects ==
  { <<Str(<<"a">>), Str(<<"b", "c">>)>>,
    <<Str(<<"a", "b">>), Str(<<"c">>)>>,
    <<Undefined, Str(<<"c">>)>>,
    <<Str(<<"a">>), Undefined>> }

Amounts == {Undefined, Num(0), Num(2), Str(<<"2">>), Str(<<"0">>), Str(<<"x">>)}

\* bodies of POST /accounts/:user/transactions
TransactionBodies ==
  {[date |-> p[1], object |-> p[2], amount |-> a] : p \in DateObjects, a \in Amounts}

\* the ids stored anywhere in the ledger
StoredIds ==
  UNION {{db[k].transactions[i].id.s : i \in DOMAIN db[k].transactions} : k \in DOMAIN db}

\* :id of the request path: a stored id, or one no transaction has
TransactionIds == StoredIds \cup {<<"9">>}

NoRequest == [op |-> "none"]

NoResponse == [status |-> 0]

\* the response sent for a handler's result
Response(r) == [status |-> r.status, body |-> r.body]

\* the accounts created in this run and only added to since, after request
\* rq with result r
Opened(rq, r) ==
  IF rq.op = "createAccount" /\ r.status = 201
  THEN Put(opened, rq.body.user.s, r.body.balance)
  ELSE IF rq.op \in {"deleteAccount", "deleteTransaction"} /\ r.status = 204
  THEN Delete(opened, rq.user)
  ELSE opened

\* the effect of the result r of handling the request req'
Handle(r) ==
  /\ steps < MaxSteps
  /\ opened' = Opened(req', r)
  /\ steps' = steps + 1
  /\ db' = r.db
  /\ file' = IF r.save THEN saveDB(r.db) ELSE file
  /\ saved' = r.save
  /\ res' = Response(r)
  /\ UNCHANGED <<inflight, running>>

---------------------------------------------------------------------------
(* Start-up and the actions *)

\* a file left by an earlier run: test deleted, alice created
EarlierRun ==
  saveDB(postAccounts(deleteAccount(SeedDB, "test").db,
                      [user |-> Str("alice"), currency |-> Str("$"),
                       description |-> Undefined, balance |-> Undefined]).db)

Init ==
  /\ file \in {FileMissing, FileCorrupt, EarlierRun}
  /\ db = LoadDB(file)
  /\ saved = FALSE
  /\ steps = 0
  /\ req = NoRequest
  /\ res = NoResponse
  /\ opened = <<>>
  /\ inflight = <<>>
  /\ running = 0

CreateAccount ==
  \E body \in AccountBodies :
    /\ req' = [op |-> "createAccount", body |-> body]
    /\ Handle(postAccounts(db, body))

GetAccount ==
  \E user \in Users :
    /\ req' = [op |-> "getAccount", user |-> user]
    /\ Handle(getAccount(db, user))

DeleteAccount ==
  \E user \in Users :
    /\ req' = [op |-> "deleteAccount", user |-> user]
    /\ Handle(deleteAccount(db, user))

AddTransaction ==
  \E user \in Users, body \in TransactionBodies :
    /\ req' = [op |-> "addTransaction", user |-> user, body |-> body]
    /\ Handle(postTransactions(db, user, body))

DeleteTransaction ==
  \E user \in Users, id \in TransactionIds :
    /\ req' = [op |-> "deleteTransaction", user |-> user, id |-> id]
    /\ Handle(deleteTransaction(db, user, Str(id)))

Next ==
  \/ CreateAccount
  \/ GetAccount
  \/ DeleteAccount
  \/ AddTransaction
  \/ DeleteTransaction

Spec == Init /\ [][Next]_vars

---------------------------------------------------------------------------
(* Requests in flight: the handlers statement by statement *)

\* the number of requests in flight together
MaxInflight == 2

\* the requests that arrive together
ConcurrentRequests ==
  { [op |-> "addTransaction", user |-> "test",
     body |-> [date |-> Str(<<"a">>), object |-> Str(<<"b", "c">>), amount |-> Num(2)]],
    [op |-> "addTransaction", user |-> "test",
     body |-> [date |-> Str(<<"a">>), object |-> Str(<<"b", "c">>), amount |-> Str(<<"0">>)]],
    [op |-> "addTransaction", user |-> "test",
     body |-> [date |-> Str(<<"a">>), object |-> Str(<<"b", "c">>), amount |-> Num(0)]],
    [op |-> "deleteTransaction", user |-> "test", id |-> <<"1">>],
    [op |-> "deleteTransaction", user |-> "test", id |-> <<"2">>],
    [op |-> "deleteAccount", user |-> "test"],
    [op |-> "createAccount",
     body |-> [user |-> Str("alice"), currency |-> Str("$"),
               description |-> Undefined, balance |-> Num(5)]] }

\* the handler of request rq applied to ledger d
Dispatch(d, rq) ==
  CASE rq.op = "createAccount" -> postAccounts(d, rq.body)
    [] rq.op = "getAccount" -> getAccount(d, rq.user)
    [] rq.op = "deleteAccount" -> deleteAccount(d, rq.user)
    [] rq.op = "addTransaction" -> postTransactions(d, rq.user, rq.body)
    [] rq.op = "deleteTransaction" -> deleteTransaction(d, rq.user, Str(rq.id))

\* a handler that answers before it saves
Statements_respondFirst(op) ==
  CASE op = "createAccount" -> <<"insert", "respond", "save">>
    [] op = "deleteAccount" -> <<"remove", "respond", "save">>
    [] op = "addTransaction" -> <<"push", "balance", "respond", "save">>
    [] op = "deleteTransaction" -> <<"splice", "respond", "save">>

\* the statements of a handler after its checks, in program order
Statements(op) ==
  CASE op = "createAccount" -> <<"insert", "save", "respond">>
    [] op = "deleteAccount" -> <<"remove", "save", "respond">>
    [] op = "addTransaction" -> <<"push", "balance", "save", "respond">>
    [] op = "deleteTransaction" -> <<"splice", "save", "respond">>

\* the statement at position at of the handler of task, "done" past the end
StatementAt(task, at) ==
  IF at <= Len(Statements(task.rq.op)) THEN Statements(task.rq.op)[at] ELSE "done"

\* a request as it arrives
Queued(rq) ==
  [rq |-> rq, at |-> 0, pc |-> "queued", status |-> 0,
   local |-> Undefined, wrote |-> FALSE, failed |-> FALSE]

\* task moved to the statement after the current one
Advance(task) ==
  [task EXCEPT !.at = task.at + 1, !.pc = StatementAt(task, task.at + 1)]

\* an event loop that lets any handler take its next statement at any time
CanRun_interleaved(i) == TRUE

\* the event loop runs a handler to completion: the handlers are synchronous
\* functions (no await, no callback, writeFileSync), so no other handler runs
\* between two statements of one
CanRun(i) == running \in {0, i}

\* the event loop after task i reached position pc
Yield(i, pc) == IF pc = "done" THEN 0 ELSE i

\* the checks of a handler, up to its first assignment: an error is answered
\* at once; otherwise the values the later statements use are kept
Checked(task, d) ==
  LET r == Dispatch(d, task.rq)
  IN IF ~r.save
     THEN [task EXCEPT !.pc = "done", !.status = r.status]
     ELSE Advance([task EXCEPT !.local =
            IF task.rq.op = "deleteTransaction"
            THEN Num(findIndex(d[task.rq.user].transactions, Str(task.rq.id)))
            ELSE r.body])

\* the key of the account a task works on
TaskUser(task) ==
  IF task.rq.op = "createAccount" THEN task.rq.body.user.s ELSE task.rq.user

\* the ledger after the assignment the task is at; the account object was
\* looked up by the checks, so an account removed from the ledger since is
\* changed without the ledger seeing it
Assigned(task, d) ==
  LET u == TaskUser(task)
  IN CASE task.pc = "insert" -> Put(d, u, task.local)
       [] task.pc = "remove" -> Delete(d, u)
       [] u \notin DOMAIN d -> d
       [] task.pc = "push" ->
            Put(d, u, [d[u] EXCEPT !.transactions = Append(@, task.local)])
       [] task.pc = "balance" ->
            Put(d, u, [d[u] EXCEPT !.balance = Plus(@, task.local.amount)])
       [] task.pc = "splice" ->
            Put(d, u, IF task.local.n <= Len(d[u].transactions)
                      THEN removeFromAccount(d[u], task.local.n) ELSE d[u])

\* the status of the success response of each handler
SuccessStatus(op) == IF op \in {"createAccount", "addTransaction"} THEN 201 ELSE 204

\* a failed write that is ignored: the handler goes on
SaveFailed_swallowed(task) == Advance([task EXCEPT !.failed = TRUE])

\* writeFileSync throws inside saveDB: nothing catches it in the handler,
\* which ends there
SaveFailed(task) == [task EXCEPT !.pc = "threw", !.failed = TRUE]

InitLoop ==
  /\ file = FileMissing
  /\ db = LoadDB(file)
  /\ saved = FALSE
  /\ steps = 0
  /\ req = NoRequest
  /\ res = NoResponse
  /\ opened = <<>>
  /\ inflight = <<>>
  /\ running = 0

\* a request arrives (at any time; its handler waits for the event loop)
Arrive ==
  \E rq \in ConcurrentRequests :
    /\ Len(inflight) < MaxInflight
    /\ inflight' = Append(inflight, Queued(rq))
    /\ UNCHANGED <<db, file, saved, steps, req, res, opened, running>>

\* the event loop calls the handler of a waiting request: its checks run
Check ==
  \E i \in DOMAIN inflight :
    /\ inflight[i].pc = "queued"
    /\ CanRun(i)
    /\ inflight' = [inflight EXCEPT ![i] = Checked(@, db)]
    /\ running' = Yield(i, inflight'[i].pc)
    /\ UNCHANGED <<db, file, saved, steps, req, res, opened>>

\* an assignment to the ledger
Assign ==
  \E i \in DOMAIN inflight :
    /\ inflight[i].pc \in {"insert", "remove", "push", "balance", "splice"}
    /\ CanRun(i)
    /\ db' = Assigned(inflight[i], db)
    /\ inflight' = [inflight EXCEPT ![i] = Advance(@)]
    /\ running' = Yield(i, inflight'[i].pc)
    /\ UNCHANGED <<file, saved, steps, req, res, opened>>

\* saveDB() writes the file
Save ==
  \E i \in DOMAIN inflight :
    /\ inflight[i].pc = "save"
    /\ CanRun(i)
    /\ file' = saveDB(db)
    /\ inflight' = [inflight EXCEPT ![i] = Advance([@ EXCEPT !.wrote = TRUE])]
    /\ running' = Yield(i, inflight'[i].pc)
    /\ UNCHANGED <<db, saved, steps, req, res, opened>>

\* saveDB() fails: the file is as it was, or cut short
SaveFails ==
  \E i \in DOMAIN inflight, f \in {file, FileCorrupt} :
    /\ inflight[i].pc = "save"
    /\ CanRun(i)
    /\ file' = f
    /\ inflight' = [inflight EXCEPT ![i] = SaveFailed(@)]
    /\ running' = Yield(i, inflight'[i].pc)
    /\ UNCHANGED <<db, saved, steps, req, res, opened>>

\* the success response is sent
Respond ==
  \E i \in DOMAIN inflight :
    /\ inflight[i].pc = "respond"
    /\ CanRun(i)
    /\ inflight' = [inflight EXCEPT ![i] =
                      Advance([@ EXCEPT !.status = SuccessStatus(inflight[i].rq.op)])]
    /\ running' = Yield(i, inflight'[i].pc)
    /\ UNCHANGED <<db, file, saved, steps, req, res, opened>>

\* Express answers 500 for the exception the handler let through
AnswerError ==
  \E i \in DOMAIN inflight :
    /\ inflight[i].pc = "threw"
    /\ CanRun(i)
    /\ inflight' = [inflight EXCEPT ![i] = [@ EXCEPT !.pc = "done", !.status = 500]]
    /\ running' = 0
    /\ UNCHANGED <<db, file, saved, steps, req, res, opened>>

NextLoop ==
  \/ Arrive
  \/ Check
  \/ Assign
  \/ Save
  \/ SaveFails
  \/ Respond
  \/ AnswerError

SpecLoop == InitLoop /\ [][NextLoop]_vars

---------------------------------------------------------------------------
(* Properties *)

\* start with the amounts of txs added to it in order
RECURSIVE AddAll(_, _)
AddAll(start, txs) ==
  IF Len(txs) = 0 THEN start
  ELSE AddAll(NumAdd(start, Head(txs).amount), Tail(txs))

\* the sum of the amounts of txs
SumOfAmounts(txs) == AddAll(Num(0), txs)

\* the ids of the transactions stored on account a
IdsOf(a) == {a.transactions[i].id : i \in DOMAIN a.transactions}

\* how many transactions of account a have this id
CountId(a, id) == Cardinality({i \in DOMAIN a.transactions : a.transactions[i].id = id})

\* C1: at rest every account's balance equals the sum of the amounts of the
\* transactions stored on it.
C1_BalanceIsSum ==
  \A k \in DOMAIN db : db[k].balance = SumOfAmounts(db[k].transactions)

\* C2 as stated: an account created by create-account and only added to since
\* has a balance equal to the sum of its transactions' amounts.
C2_CreatedBalanceIsSum ==
  \A k \in DOMAIN opened :
    Len(db[k].transactions) > 0 =>
      db[k].balance = SumOfAmounts(db[k].transactions)

\* C2 amended: an account created by create-account and only added to since
\* has a balance equal to its opening balance with the amounts of its stored
\* transactions added to it in add order.
C2_CreatedBalanceIsOpeningPlusSum ==
  \A k \in DOMAIN opened :
    /\ k \in DOMAIN db
    /\ db[k].balance = AddAll(opened[k], db[k].transactions)

\* C2 witness: an account opened with a non-zero balance holds two added
\* transactions.
C2_Witness ==
  \E k \in DOMAIN opened :
    /\ opened[k] # Num(0)
    /\ Len(db[k].transactions) = 2
    /\ db[k].balance = Num(7)

\* C3: when an add-transaction request is repeated right after it was handled
\* (same account, same date, object and amount), the second call returns 409,
\* changes neither the ledger nor the file, and the account stores exactly one
\* transaction with that content's id.
C3_SecondAddConflicts ==
  [][(/\ req.op = "addTransaction"
      /\ res.status \in {201, 409}
      /\ req' = req)
     => (/\ res'.status = 409
         /\ db' = db
         /\ file' = file
         /\ ~saved'
         /\ CountId(db'[req.user], transactionId(req.body)) = 1)]_vars

\* C3 witness: a repeated add was answered 409 and the content is stored once.
C3_Witness ==
  /\ req.op = "addTransaction"
  /\ res.status = 409
  /\ steps >= 2
  /\ CountId(db[req.user], transactionId(req.body)) = 1
  /\ \E i \in DOMAIN db[req.user].transactions :
       /\ db[req.user].transactions[i].date = req.body.date
       /\ db[req.user].transactions[i].object = req.body.object

\* C4: no account holds two transactions with the same id.
C4_UniqueIds ==
  \A k \in DOMAIN db :
    \A i, j \in DOMAIN db[k].transactions :
      db[k].transactions[i].id = db[k].transactions[j].id => i = j

\* C4 witness: a transaction was added, deleted and added again with the same
\* content (the balance counts its amount 2 twice, the account stores it once).
C4_Witness ==
  /\ req.op = "addTransaction"
  /\ res.status = 201
  /\ res.body.amount = Num(2)
  /\ req.user \in DOMAIN db
  /\ db[req.user].transactions = <<res.body>>
  /\ db[req.user].balance = Num(4)

\* the request handled by this step creates an account whose user is stored
CreateOfExisting ==
  /\ req'.op = "createAccount"
  /\ Truthy(req'.body.user)
  /\ req'.body.user.s \in DOMAIN db

\* this step leaves the ledger and the file alone and calls no saveDB
NothingChanges == db' = db /\ file' = file /\ ~saved'

\* C5 as stated: a create-account whose user is already in the ledger is
\* answered 409 whatever its other fields are, and changes nothing.
C5_ExistingUserConflicts ==
  [][CreateOfExisting => (res'.status = 409 /\ NothingChanges)]_vars

\* C5 amended: a create-account whose user is already in the ledger and whose
\* currency is present is answered 409 whatever its description and balance
\* are, and changes nothing; without a currency it is answered 400, and
\* changes nothing either.
C5_ExistingUserWithCurrencyConflicts ==
  [][CreateOfExisting =>
       (/\ res'.status = IF Truthy(req'.body.currency) THEN 409 ELSE 400
        /\ NothingChanges)]_vars

\* C5 witness: a create for a stored user with an unparsable balance was
\* answered 409.
C5_Witness ==
  /\ req.op = "createAccount"
  /\ Truthy(req.body.user)
  /\ req.body.user.s \in DOMAIN db
  /\ req.body.balance = Str(<<"x">>)
  /\ res.status = 409
  /\ res.body = ErrorBody("User already exists")

\* C6: a request answered 400, 409 or 404 leaves the ledger and the file
\* unchanged and calls no saveDB; a delete-transaction whose id is not on the
\* (existing) account is answered 404.
C6_ErrorsChangeNothing ==
  [][/\ res'.status \in {400, 404, 409} => NothingChanges
     /\ (/\ req'.op = "deleteTransaction"
         /\ req'.user \in DOMAIN db
         /\ Str(req'.id) \notin IdsOf(db[req'.user]))
        => (res'.status = 404 /\ NothingChanges)]_vars

\* C6 witness: a delete-transaction on an account that holds transactions,
\* none with the given id, was answered 404.
C6_Witness ==
  /\ req.op = "deleteTransaction"
  /\ res.status = 404
  /\ req.user \in DOMAIN db
  /\ Len(db[req.user].transactions) > 0
  /\ Str(req.id) \notin IdsOf(db[req.user])
  /\ ~saved

\* C7: a successful delete-transaction removes the transaction with the given
\* id, keeps the others in order, and leaves the balance (and the rest of the
\* account) as it was.
C7_DeleteKeepsBalance ==
  [][(req'.op = "deleteTransaction" /\ res'.status = 204) =>
       LET before == db[req'.user]
           after == db'[req'.user]
           kept(tx) == tx.id # Str(req'.id)
       IN /\ after.balance = before.balance
          /\ after.transactions = SelectSeq(before.transactions, kept)
          /\ Len(after.transactions) = Len(before.transactions) - 1
          /\ after = [before EXCEPT !.transactions = after.transactions]]_vars

\* C7 witness: alice was opened with balance 0, amount 2 was added and then
\* deleted: no transactions, balance still 2.
C7_Witness ==
  /\ req.op = "deleteTransaction"
  /\ res.status = 204
  /\ req.user = "alice"
  /\ db["alice"].transactions = <<>>
  /\ db["alice"].balance = Num(2)

\* C8: after a request that saved, the file's content, loaded again, is the
\* in-memory ledger.
C8_FileIsLedger == saved => LoadDB(file) = db

\* C9: after a successful create-account the ledger holds, under the user's
\* key, an account with the supplied user and currency, no transactions, the
\* supplied numeric balance (else 0) and the supplied description (else
\* "<user>'s budget"), and the response body is that account.
C9_CreatedAccount ==
  (req.op = "createAccount" /\ res.status = 201) =>
    LET body == req.body
        key == body.user.s
    IN /\ Truthy(body.user) /\ Truthy(body.currency)
       /\ key \in DOMAIN db
       /\ db[key].user = body.user
       /\ db[key].currency = body.currency
       /\ db[key].transactions = <<>>
       /\ db[key].balance =
            CASE body.balance = Undefined -> Num(0)
              [] body.balance = Str(<<"5">>) -> Num(5)
              [] OTHER -> body.balance
       /\ db[key].description =
            IF body.description = Undefined
            THEN Str(key \o "'s budget") ELSE body.description
       /\ res.body = db[key]

\* C9 witness: alice was created from a string balance and no description.
C9_Witness ==
  /\ req.op = "createAccount"
  /\ res.status = 201
  /\ req.body.balance = Str(<<"5">>)
  /\ req.body.description = Undefined
  /\ db["alice"].balance = Num(5)
  /\ db["alice"].description = Str("alice's budget")

\* an amount that is zero: the number 0, or a string that parses to 0
IsZeroAmount(x) == x = Num(0) \/ (x.t = "string" /\ ParseFloatStr(x.s) = Num(0))

\* C10 as stated: an add-transaction on an existing account whose amount is
\* zero, as a number or as a string, is answered 400 and stores nothing.
C10_ZeroAmountRejected ==
  [][(/\ req'.op = "addTransaction"
      /\ req'.user \in DOMAIN db
      /\ IsZeroAmount(req'.body.amount))
     => (res'.status = 400 /\ NothingChanges)]_vars

\* C10 amended: an add-transaction on an existing account whose amount is the
\* number 0 is answered 400 and stores nothing; so a transaction with amount
\* 0 is only ever added from a string amount that parses to 0.
C10_NumericZeroRejected ==
  [][/\ (/\ req'.op = "addTransaction"
         /\ req'.user \in DOMAIN db
         /\ req'.body.amount = Num(0))
        => (/\ res'.status = 400
            /\ res'.body = ErrorBody("Missing parameters")
            /\ NothingChanges)
     /\ (/\ req'.op = "addTransaction"
         /\ res'.status = 201
         /\ res'.body.amount = Num(0))
        => (req'.body.amount.t = "string" /\ IsZeroAmount(req'.body.amount))]_vars

\* C10 witness: an add with date, object and the number 0 was answered 400,
\* and an account holds a zero-amount transaction added from the string "0".
C10_Witness ==
  /\ req.op = "addTransaction"
  /\ req.user \in DOMAIN db
  /\ Truthy(req.body.date) /\ Truthy(req.body.object)
  /\ req.body.amount = Num(0)
  /\ res.status = 400
  /\ \E i \in DOMAIN db[req.user].transactions :
       /\ db[req.user].transactions[i].amount = Num(0)
       /\ db[req.user].transactions[i].id = transactionId([req.body EXCEPT !.amount = Str(<<"0">>)])

\* the ledger after the handlers of the requests rqs ran one after the other
RECURSIVE ApplyAll(_, _)
ApplyAll(d, rqs) ==
  IF Len(rqs) = 0 THEN d ELSE ApplyAll(Dispatch(d, Head(rqs)).db, Tail(rqs))

\* the orders in which the tasks of set S can be taken, each once
OrdersOf(S) ==
  {p \in [1..Cardinality(S) -> S] : \A i, j \in DOMAIN p : p[i] = p[j] => i = j}

\* the ledger after the tasks of order p were handled serially from the seed
SerialLedger(p) == ApplyAll(SeedDB, [i \in DOMAIN p |-> inflight[p[i]].rq])

\* the tasks whose handler was called
Started == {i \in DOMAIN inflight : inflight[i].pc # "queued"}

\* C11: whenever no handler is running, the ledger is the result of handling
\* the started requests one after the other in some order, and (no write
\* having failed) the file holds that ledger; and every content the file ever
\* holds is the ledger of some serial run of some of the requests.
C11_Serial ==
  /\ running = 0 =>
       \E p \in OrdersOf(Started) :
         /\ db = SerialLedger(p)
         /\ (\A i \in Started : ~inflight[i].failed) =>
              file = IF \E i \in Started : inflight[i].wrote
                     THEN saveDB(db) ELSE FileMissing
  /\ file.state = "json" =>
       \E S \in SUBSET Started : \E p \in OrdersOf(S) : file = saveDB(SerialLedger(p))

\* C11 witness: two mutations that arrived together are both answered with
\* success, handled in the order opposite to their arrival.
C11_Witness ==
  /\ Len(inflight) = 2
  /\ \A i \in DOMAIN inflight :
       inflight[i].pc = "done" /\ inflight[i].status \in {201, 204}
  /\ db = SerialLedger(<<2, 1>>)
  /\ db # SerialLedger(<<1, 2>>)
  /\ file = saveDB(db)

\* C12: when a success response (201 or 204) is sent, the handler's saveDB
\* call has returned and the file holds the ledger with the request's
\* mutation.
C12_SaveBeforeResponse ==
  [][\A i \in DOMAIN inflight :
       (inflight'[i].status \in {201, 204} /\ inflight[i].status = 0) =>
         /\ inflight[i].wrote
         /\ file = saveDB(db)
         /\ db' = db /\ file' = file]_vars

\* C12 witness: an add-transaction was answered 201 and the file holds its
\* transaction.
C12_Witness ==
  \E i \in DOMAIN inflight :
    /\ inflight[i].rq.op = "addTransaction"
    /\ inflight[i].status = 201
    /\ inflight[i].wrote
    /\ file.state = "json"
    /\ "test" \in DOMAIN file.doc
    /\ \E k \in DOMAIN file.doc["test"].transactions :
         file.doc["test"].transactions[k].id = inflight[i].local.id

\* C13: a request whose save failed is never answered 201 or 204: it is
\* answered 500; and neither the failure nor the error answer undoes the
\* mutation in memory.
C13_FailedSaveIsAnError ==
  [][\A i \in DOMAIN inflight :
       /\ inflight'[i].failed =>
            /\ inflight'[i].status \in {0, 500}
            /\ inflight'[i].pc = "done" => inflight'[i].status = 500
       /\ (inflight'[i].failed /\ inflight'[i] # inflight[i]) => db' = db]_vars

\* C13 witness: an add-transaction whose save failed was answered 500, the
\* ledger holds its transaction and the file does not.
C13_Witness ==
  \E i \in DOMAIN inflight :
    /\ inflight[i].rq.op = "addTransaction"
    /\ inflight[i].failed
    /\ inflight[i].status = 500
    /\ "test" \in DOMAIN db
    /\ \E k \in DOMAIN db["test"].transactions :
         db["test"].transactions[k] = inflight[i].local
    /\ file = FileMissing

\* C14: as long as nothing was saved over a missing or unparsable file, the
\* ledger is the seed (one account, key and user "test", currency "$",
\* description "Test account", balance 75, the three seed transactions) and
\* requests are served; started from a file that parses, the ledger is the
\* file's content.
C14_StartupLedger ==
  /\ file.state \in {"missing", "corrupt"} =>
       /\ DOMAIN db = {"test"}
       /\ db["test"].user = Str("test")
       /\ db["test"].currency = Str("$")
       /\ db["test"].description = Str("Test account")
       /\ db["test"].balance = Num(75)
       /\ Len(db["test"].transactions) = 3
       /\ [i \in 1..3 |-> db["test"].transactions[i].id] =
            <<Str(<<"1">>), Str(<<"2">>), Str(<<"3">>)>>
       /\ [i \in 1..3 |-> db["test"].transactions[i].amount] =
            <<Num(50), Num(0 - 10), Num(0 - 5)>>
  /\ (steps = 0 /\ file.state = "json") => db = file.doc

\* C14 witness: started from an unparsable file, the service answered a
\* get-account for the seed account.
C14_Witness ==
  /\ file = FileCorrupt
  /\ steps > 0
  /\ req.op = "getAccount"
  /\ res.status = 200
  /\ res.body = SeedDB["test"]

\* C15: a successful add-transaction appends the new transaction after the
\* stored ones, which stay as they were; a successful delete-transaction
\* removes the one transaction with the given id and keeps the others in
\* their order.
C15_AddOrderKept ==
  [][/\ (req'.op = "addTransaction" /\ res'.status = 201) =>
          /\ db'[req'.user].transactions =
               Append(db[req'.user].transactions, res'.body)
          /\ res'.body.date = req'.body.date
          /\ res'.body.object = req'.body.object
     /\ (req'.op = "deleteTransaction" /\ res'.status = 204) =>
          \E k \in DOMAIN db[req'.user].transactions :
            /\ db[req'.user].transactions[k].id = Str(req'.id)
            /\ \A j \in DOMAIN db[req'.user].transactions :
                 j # k => db[req'.user].transactions[j].id # Str(req'.id)
            /\ db'[req'.user].transactions =
                 SubSeq(db[req'.user].transactions, 1, k - 1)
                 \o SubSeq(db[req'.user].transactions, k + 1,
                           Len(db[req'.user].transactions))]_vars

\* C15 witness: a transaction was added to the seed account and then the
\* second seed transaction was deleted: ids 1, 3 and the added one, in order.
C15_Witness ==
  /\ req.op = "deleteTransaction"
  /\ req.id = <<"2">>
  /\ res.status = 204
  /\ Len(db["test"].transactions) = 3
  /\ db["test"].transactions[1].id = Str(<<"1">>)
  /\ db["test"].transactions[2].id = Str(<<"3">>)
  /\ db["test"].transactions[3].id = transactionId(
       [date |-> Str(<<"a">>), object |-> Str(<<"b", "c">>), amount |-> Num(2)])

\* a balance that create-account accepts
ValidBalance(b) == b.t # "string" \/ ParseFloatStr(b.s) # NaN

\* C16: right after a successful delete-account(u), get-account,
\* delete-account, add-transaction and delete-transaction on u are answered
\* 404, and a create-account for u (currency present, balance valid) succeeds
\* with no transactions.
C16_DeletedIsAbsent ==
  [][(req.op = "deleteAccount" /\ res.status = 204) =>
       /\ (/\ req'.op \in {"getAccount", "deleteAccount",
                           "addTransaction", "deleteTransaction"}
           /\ req'.user = req.user)
          => res'.status = 404
       /\ (/\ req'.op = "createAccount"
           /\ req'.body.user = Str(req.user)
           /\ Truthy(req'.body.currency)
           /\ ValidBalance(req'.body.balance))
          => (/\ res'.status = 201
              /\ db'[req.user].transactions = <<>>
              /\ db'[req.user].balance \in {Num(0), Num(5)})]_vars

\* the key of the account a request is addressed to
Target(rq) ==
  IF rq.op = "createAccount"
  THEN (IF rq.body.user.t = "string" THEN {rq.body.user.s} ELSE {})
  ELSE {rq.user}

\* C17: a request addressed to user u leaves every other account of the
\* ledger as it was (none added, none removed, none changed), and a
\* get-account changes nothing and saves nothing.
C17_OtherAccountsUntouched ==
  [][/\ \A k \in (DOMAIN db \cup DOMAIN db') \ Target(req') :
          k \in DOMAIN db /\ k \in DOMAIN db' /\ db'[k] = db[k]
     /\ req'.op = "getAccount" => NothingChanges]_vars

\* C17 witness: with the seed account and alice in the ledger, a transaction
\* was added to alice and the seed account is as it was.
C17_Witness ==
  /\ req.op = "addTransaction"
  /\ req.user = "alice"
  /\ res.status = 201
  /\ DOMAIN db = {"alice", "test"}
  /\ db["test"] = SeedDB["test"]

\* C18: add-transaction answers 409 only when the account stores a
\* transaction with the request's date, object and amount.
C18_ConflictOnlyForSameContent ==
  [][(req'.op = "addTransaction" /\ res'.status = 409) =>
       \E k \in DOMAIN db[req'.user].transactions :
         /\ db[req'.user].transactions[k].date = req'.body.date
         /\ db[req'.user].transactions[k].object = req'.body.object
         /\ db[req'.user].transactions[k].amount = transactionAmount(req'.body)]_vars

\* C19: for a user with no stored account, get-account is answered 404 and a
\* create-account with a currency and a valid balance succeeds.
C19_PresenceIsStoredAccounts ==
  [][/\ (req'.op = "getAccount" /\ req'.user \notin DOMAIN db)
          => res'.status = 404
     /\ (/\ req'.op = "createAccount"
         /\ Truthy(req'.body.user)
         /\ req'.body.user.s \notin DOMAIN db
         /\ Truthy(req'.body.currency)
         /\ ValidBalance(req'.body.balance))
        => (res'.status = 201 /\ req'.body.user.s \in DOMAIN db')]_vars

====
